---- MODULE Spec2Model ----
(***************************************************************************)
(* A model of the update-ingestion and dispatch core of TelegramBot        *)
(* (src/src/telegram.ts): the transport lifecycle (startPolling,           *)
(* stopPolling, openWebHook, closeWebHook), the polling engine and webhook *)
(* receiver the lifecycle drives, and processUpdate with its text-matcher  *)
(* and reply-listener tables.                                              *)
(*                                                                         *)
(* telegramPolling.ts and telegramWebHook.ts are imported by telegram.ts   *)
(* (lines 14-15) but are not part of the sources at hand; the engine and   *)
(* the receiver are therefore modelled from sections 4.2 and 4.3 of the    *)
(* specification.  Everything else is translated from telegram.ts.         *)
(***************************************************************************)
EXTENDS Integers, Sequences, FiniteSets, TLC

\* ---- bounds of the model ----
MaxUpdateId == 2   \* update ids the remote side hands out are 0..MaxUpdateId
MaxBatch == 2      \* updates per fetched batch
MaxConns == 1      \* webhook requests in flight at once
MaxKeys == 2       \* populated subtype keys on one message
MaxRegs == 2       \* registrations (listeners, matchers, reply listeners) per bot

VARIABLES
  ctor,                 \* "ok": constructed; "threw": the constructor threw
  options,              \* this.options (polling, webHook, onlyFirstMatch)
  _polling,             \* this._polling: 0 is null, else an index into engines
  _webHook,             \* this._webHook: 0 is null, else an index into receivers
  engines,              \* the TelegramBotPolling objects created so far
  receivers,            \* the TelegramBotWebHook objects created so far
  promises,             \* the pending deferreds of lifecycle calls
  settled,              \* the deferreds settled by the latest step
  call,                 \* the lifecycle call the latest step made, if any
  _textRegexpCallbacks, \* this._textRegexpCallbacks
  _replyListeners,      \* this._replyListeners
  _replyListenerId,     \* this._replyListenerId
  handlers,             \* the events with a listener (EventEmitter.on) that throws
  update,               \* the update of the processUpdate call on record
  emitted,              \* the emit() calls on record, in order
  invoked,              \* the callbacks invoked on record, in order
  threw,                \* the processUpdate call on record ended by throwing
  returned              \* the removeReplyListener call on record: its argument and result

lifecycleVars == <<_polling, _webHook, engines, receivers, promises, settled, call>>
tableVars == <<_textRegexpCallbacks, _replyListeners, _replyListenerId, handlers>>
dispatchVars == <<update, emitted, invoked, threw, returned>>
vars == <<ctor, options, lifecycleVars, tableVars, dispatchVars>>

\* ======================================================================
\* UpdateDispatcher: processUpdate and the tables it reads
\* ======================================================================

_messageTypes ==
  << "text", "audio", "document", "photo", "sticker", "video", "voice", "contact",
     "location", "new_chat_participant", "left_chat_participant", "new_chat_title",
     "new_chat_photo", "delete_chat_photo", "group_chat_created" >>

\* the variant fields of an update, in the order processUpdate tests them
Variants ==
  << "message", "edited_message", "channel_post", "edited_channel_post",
     "inline_query", "chosen_inline_result", "callback_query" >>

\* A payload is the object in one variant field.  field names the variant it
\* sits in, keys are its populated (truthy) properties, text its text,
\* chat its chat.id, reply_to its reply_to_message.message_id (0: no
\* reply_to_message).  Null stands for an absent (undefined) field.
Null == [field |-> "null", keys |-> {}, text |-> <<>>, chat |-> 0, reply_to |-> 0]

\* JavaScript truthiness of a variant field: an object is truthy, undefined is not
Truthy(p) == p.field # "null"

\* JavaScript truthiness of payload[key]: the empty string is falsy
Has(p, key) == key \in p.keys /\ (key = "text" => p.text # <<>>)

\* the state of one run of processUpdate: what it emitted and invoked so far,
\* the matcher table (exec moves lastIndex), the reply-listener table (a
\* callback may remove its listener), and whether an exception is propagating
Run0(regs, listeners) ==
  [emits |-> <<>>, invoked |-> <<>>, regs |-> regs, listeners |-> listeners,
   threw |-> FALSE]

\* a listener registered for ev throws
ListenerThrows(hs, ev) == ev \in hs

\* this.emit(ev, arg): EventEmitter calls the listeners synchronously, so a
\* listener that throws ends processUpdate at this statement
Emit(R, hs, ev, arg) ==
  IF R.threw THEN R
  ELSE [R EXCEPT !.emits = Append(@, [ev |-> ev, arg |-> arg]),
                 !.threw = ListenerThrows(hs, ev)]

\* a callback (of a text matcher or a reply listener) is called
Invoke(R, kind, who, cb, arg, match) ==
  IF R.threw THEN R
  ELSE [R EXCEPT !.invoked = Append(@, [kind |-> kind, who |-> who, arg |-> arg,
                                        match |-> match, removes |-> cb.removes]),
                 !.threw = cb.throws]

\* text has the literal src at 0-based position i
MatchesAt(src, text, i) ==
  /\ i + Len(src) <= Len(text)
  /\ \A k \in 1..Len(src) : text[i + k] = src[k]

\* regexp.exec(text) for a literal pattern: index is the 0-based position of
\* the match, -1 for null; a global pattern starts at lastIndex and keeps the
\* end of the match there, and resets it to 0 when it fails
Exec(regexp, text) ==
  LET start == IF regexp.global THEN regexp.lastIndex ELSE 0
      hits == {i \in start..Len(text) : MatchesAt(regexp.src, text, i)}
  IN IF hits = {}
       THEN [index |-> -1, lastIndex |-> IF regexp.global THEN 0 ELSE regexp.lastIndex]
       ELSE LET i == CHOOSE j \in hits : \A k \in hits : j <= k
            IN [index |-> i,
                lastIndex |-> IF regexp.global THEN i + Len(regexp.src)
                              ELSE regexp.lastIndex]

\* this._textRegexpCallbacks.some(...) from entry i on
RECURSIVE SomeText(_, _, _, _)
SomeText(R, message, onlyFirstMatch, i) ==
  IF R.threw \/ i > Len(R.regs) THEN R
  ELSE LET reg == R.regs[i]
           result == Exec(reg.regexp, message.text)
           R1 == [R EXCEPT !.regs[i].regexp.lastIndex = result.lastIndex]
       IN IF result.index = -1
            THEN SomeText(R1, message, onlyFirstMatch, i + 1)
            ELSE LET R2 == Invoke(R1, "text", i, reg.callback, message, result.index)
                 IN IF onlyFirstMatch THEN R2
                    ELSE SomeText(R2, message, onlyFirstMatch, i + 1)

\* this._replyListeners.findIndex(...): 0 stands for -1
FindIndex(listeners, replyListenerId) ==
  IF \E i \in DOMAIN listeners : listeners[i].id = replyListenerId
    THEN CHOOSE i \in DOMAIN listeners :
           /\ listeners[i].id = replyListenerId
           /\ \A j \in DOMAIN listeners : listeners[j].id = replyListenerId => i <= j
    ELSE 0

\* listeners.splice(index): the array cut off at entry index
SpliceToEnd(listeners, index) == SubSeq(listeners, 1, index - 1)

\* listeners.splice(index, 1): the array without entry index
Splice(listeners, index) ==
  [i \in 1..(Len(listeners) - 1) |->
     IF i < index THEN listeners[i] ELSE listeners[i + 1]]

\* the table after removeReplyListener(replyListenerId)
Removed(listeners, replyListenerId) ==
  LET index == FindIndex(listeners, replyListenerId)
  IN IF index = 0 THEN listeners ELSE Splice(listeners, index)

\* this._replyListeners.forEach(...) from entry i on: forEach walks the
\* indices below the length n the array had when the loop began and reads
\* the array itself at each of them, so an entry that a callback removes
\* moves the later entries one place down; a callback that removes its own
\* listener calls removeReplyListener with the id it was registered under
RECURSIVE EachReply(_, _, _, _)
EachReply(R, n, message, i) ==
  IF R.threw \/ i > n \/ i > Len(R.listeners) THEN R
  ELSE LET reply == R.listeners[i]
           hit == reply.chatId = message.chat /\ reply.messageId = message.reply_to
           R1 == IF hit THEN Invoke(R, "reply", reply.id, reply.callback, message, -1)
                 ELSE R
           R2 == IF hit /\ reply.callback.removes
                   THEN [R1 EXCEPT !.listeners = Removed(@, reply.id)] ELSE R1
       IN EachReply(R2, n, message, i + 1)

\* TelegramBot.messageTypes.forEach(processMessageType) from entry i on
RECURSIVE EachMessageType(_, _, _, _)
EachMessageType(R, hs, message, i) ==
  IF i > Len(_messageTypes) THEN R
  ELSE LET R1 == IF Has(message, _messageTypes[i])
                   THEN Emit(R, hs, _messageTypes[i], message)
                   ELSE R
       IN EachMessageType(R1, hs, message, i + 1)

\* the message branch of processUpdate
MessageBranch(R, hs, listeners, onlyFirstMatch, message) ==
  LET R1 == Emit(R, hs, "message", message)
      R2 == EachMessageType(R1, hs, message, 1)
      R3 == IF Has(message, "text") THEN SomeText(R2, message, onlyFirstMatch, 1) ELSE R2
  IN IF message.reply_to # 0 THEN EachReply(R3, Len(listeners), message, 1) ELSE R3

\* a branch that emits its category and the derived _text and _caption events
DerivedBranch(R, hs, name, payload) ==
  LET R1 == Emit(R, hs, name, payload)
      R2 == IF Has(payload, "text") THEN Emit(R1, hs, name \o "_text", payload) ELSE R1
  IN IF Has(payload, "caption") THEN Emit(R2, hs, name \o "_caption", payload) ELSE R2

\* processUpdate with the branches tested in another order: edited_message
\* before message
ProcessUpdateEditedFirst(u, regs, listeners, hs, onlyFirstMatch) ==
  LET R == Run0(regs, listeners)
  IN IF Truthy(u.edited_message) THEN DerivedBranch(R, hs, "edited_message", u.edited_message)
     ELSE IF Truthy(u.message)
       THEN MessageBranch(R, hs, listeners, onlyFirstMatch, u.message)
     ELSE IF Truthy(u.channel_post) THEN Emit(R, hs, "channel_post", u.channel_post)
     ELSE IF Truthy(u.edited_channel_post)
       THEN DerivedBranch(R, hs, "edited_channel_post", u.edited_channel_post)
     ELSE IF Truthy(u.inline_query) THEN Emit(R, hs, "inline_query", u.inline_query)
     ELSE IF Truthy(u.chosen_inline_result)
       THEN Emit(R, hs, "chosen_inline_result", u.chosen_inline_result)
     ELSE IF Truthy(u.callback_query) THEN Emit(R, hs, "callback_query", u.callback_query)
     ELSE R

\* processUpdate with the three query branches as ifs without else: each
\* populated query field gets its notification
ProcessUpdateQueriesNoElse(u, regs, listeners, hs, onlyFirstMatch) ==
  LET R == Run0(regs, listeners)
  IN IF Truthy(u.message)
       THEN MessageBranch(R, hs, listeners, onlyFirstMatch, u.message)
     ELSE IF Truthy(u.edited_message)
       THEN DerivedBranch(R, hs, "edited_message", u.edited_message)
     ELSE IF Truthy(u.channel_post) THEN Emit(R, hs, "channel_post", u.channel_post)
     ELSE IF Truthy(u.edited_channel_post)
       THEN DerivedBranch(R, hs, "edited_channel_post", u.edited_channel_post)
     ELSE LET R1 == IF Truthy(u.inline_query)
                      THEN Emit(R, hs, "inline_query", u.inline_query) ELSE R
              R2 == IF Truthy(u.chosen_inline_result)
                      THEN Emit(R1, hs, "chosen_inline_result", u.chosen_inline_result)
                      ELSE R1
          IN IF Truthy(u.callback_query)
               THEN Emit(R2, hs, "callback_query", u.callback_query) ELSE R2

\* processUpdate(update): the run it makes over the given tables
ProcessUpdate(u, regs, listeners, hs, onlyFirstMatch) ==
  LET R == Run0(regs, listeners)
  IN IF Truthy(u.message)
       THEN MessageBranch(R, hs, listeners, onlyFirstMatch, u.message)
     ELSE IF Truthy(u.edited_message)
       THEN DerivedBranch(R, hs, "edited_message", u.edited_message)
     ELSE IF Truthy(u.channel_post) THEN Emit(R, hs, "channel_post", u.channel_post)
     ELSE IF Truthy(u.edited_channel_post)
       THEN DerivedBranch(R, hs, "edited_channel_post", u.edited_channel_post)
     ELSE IF Truthy(u.inline_query) THEN Emit(R, hs, "inline_query", u.inline_query)
     ELSE IF Truthy(u.chosen_inline_result)
       THEN Emit(R, hs, "chosen_inline_result", u.chosen_inline_result)
     ELSE IF Truthy(u.callback_query) THEN Emit(R, hs, "callback_query", u.callback_query)
     ELSE R

\* null where a reply listener is expected
NoListener ==
  [id |-> 0, chatId |-> 0, messageId |-> 0,
   callback |-> [throws |-> FALSE, removes |-> FALSE]]

\* no removeReplyListener call (the ids issued start at 1)
NoReturn == [id |-> 0, value |-> NoListener]

\* an update with every variant field absent
NoUpdate ==
  [update_id |-> -1, message |-> Null, edited_message |-> Null, channel_post |-> Null,
   edited_channel_post |-> Null, inline_query |-> Null, chosen_inline_result |-> Null,
   callback_query |-> Null]

\* ======================================================================
\* PollingEngine and WebhookReceiver (telegramPolling.ts and
\* telegramWebHook.ts, modelled from sections 4.2 and 4.3 of the
\* specification)
\* ======================================================================

\* no lifecycle call
NoCall == [op |-> "none", arg |-> "undefined", status |-> "none"]

\* The lifecycle operations are written as functions of the record L of the
\* lifecycle fields, so that the constructor can call two of them in a row.
Here ==
  [polling |-> _polling, webHook |-> _webHook, engines |-> engines,
   receivers |-> receivers, promises |-> promises, settled |-> {}, call |-> NoCall]

Fresh ==
  [polling |-> 0, webHook |-> 0, engines |-> <<>>, receivers |-> <<>>,
   promises |-> {}, settled |-> {}, call |-> NoCall]

\* new TelegramBotPolling(bot): Stopped, cursor 0, nothing in flight.
\* wait is the timer the loop sleeps on ("none", "interval", "backoff");
\* restart says a fresh loop starts once the cancelled one has ended;
\* reqOffset is the cursor the request in flight carries; maxSeen is the
\* largest update_id fetched so far (-1: none); batch is the array of update
\* ids the latest fetch returned, kept until the interval has passed.
NewEngine ==
  [state |-> "Stopped", offset |-> 0, inflight |-> 0, reqOffset |-> 0,
   wait |-> "none", restart |-> FALSE, maxSeen |-> -1, batch |-> <<>>]

\* A request on a connection of the receiver: its path ("health": the
\* configured health path, "update": any other), method and body ("update":
\* a body that parses to an update, "garbage": one that does not parse), and
\* what the receiver has done with it: the status of the response sent (0:
\* none yet), the responses sent, whether the body was parsed, and the times
\* its update was handed to the dispatcher.
NoRequest ==
  [path |-> "none", method |-> "none", body |-> "none", status |-> 0, responses |-> 0,
   parsed |-> FALSE, dispatched |-> 0]

\* new TelegramBotWebHook(bot): not listening, no connection, no request in
\* any connection slot; rejected records that some request was answered with
\* a client error
NewReceiver ==
  [open |-> FALSE, binding |-> FALSE, conns |-> 0,
   reqs |-> [k \in 1..MaxConns |-> NoRequest], rejected |-> FALSE]

\* TelegramBotPolling.isPolling(): the engine has left Stopped
EngineIsPolling(e) == e.state # "Stopped"

\* TelegramBotWebHook.isOpen(): the listener is bound and accepts connections
ReceiverIsOpen(r) == r.open

\* the pending deferreds of operation op on object obj settle with status
Settle(L, op, obj, status) ==
  LET hit == {p \in L.promises : p.op = op /\ p.obj = obj}
  IN [L EXCEPT !.promises = @ \ hit,
               !.settled = @ \cup {[op |-> p.op, obj |-> p.obj, fresh |-> p.fresh,
                                    status |-> status] : p \in hit}]

\* a lifecycle call returns its deferred: every older deferred stops being
\* the latest call, a pending one is kept, one settled at once is reported
Return(L, op, arg, obj, status) ==
  LET old == {[p EXCEPT !.fresh = FALSE] : p \in L.promises}
  IN [L EXCEPT
        !.promises = IF status = "pending"
                       THEN old \cup {[op |-> op, obj |-> obj, fresh |-> TRUE]}
                       ELSE old,
        !.settled = {[s EXCEPT !.fresh = FALSE] : s \in @} \cup
                    (IF status = "pending" THEN {}
                     ELSE {[op |-> op, obj |-> obj, fresh |-> TRUE, status |-> status]}),
        !.call = [op |-> op, arg |-> arg, status |-> status]]

\* TelegramBotPolling.start({restart}) on engine i: a stopped engine starts;
\* a running one is left alone when restart is false, and is cancelled with
\* a fresh loop to follow when restart is true; an engine that is stopping
\* starts a fresh loop once it has stopped
EngineStart(L, i, restart) ==
  LET e == L.engines[i]
  IN IF e.state = "Stopped"
       THEN [L |-> [L EXCEPT !.engines[i].state = "Starting"], status |-> "pending"]
     ELSE IF e.state = "Stopping"
       THEN [L |-> [L EXCEPT !.engines[i].restart = TRUE], status |-> "pending"]
     ELSE IF restart
       THEN [L |-> [L EXCEPT !.engines[i].state = "Stopping",
                             !.engines[i].restart = TRUE], status |-> "pending"]
     ELSE [L |-> L, status |-> "resolved"]

\* TelegramBotPolling.stop() on engine i: sets the cancellation flag (state
\* Stopping) and withdraws a restart that was waiting; the request in flight
\* is left alone
EngineStop(L, i) ==
  LET e == L.engines[i]
  IN IF e.state = "Stopped"
       THEN [L |-> L, status |-> "resolved"]
       ELSE [L |-> Settle([L EXCEPT !.engines[i].state = "Stopping",
                                    !.engines[i].restart = FALSE],
                          "startPolling", i, "rejected"),
             status |-> "pending"]

\* TelegramBotWebHook.open() on receiver i: an open receiver is left alone;
\* otherwise the listener is (being) bound and the deferred waits for it
ReceiverOpen(L, i) ==
  IF L.receivers[i].open
    THEN [L |-> L, status |-> "resolved"]
    ELSE [L |-> [L EXCEPT !.receivers[i].binding = TRUE], status |-> "pending"]

\* TelegramBotWebHook.close() on receiver i: a receiver that is not open is
\* left alone; an open one stops accepting and the deferred waits for the
\* connections in flight
ReceiverClose(L, i) ==
  IF ~L.receivers[i].open
    THEN [L |-> L, status |-> "resolved"]
    ELSE [L |-> [L EXCEPT !.receivers[i].open = FALSE], status |-> "pending"]

\* ======================================================================
\* TransportLifecycle (telegram.ts)
\* ======================================================================

\* isPolling() answering by whether polling was ever started
IsPollingEver(L) == L.polling # 0

\* isPolling()
IsPolling(L) == IF L.polling # 0 THEN EngineIsPolling(L.engines[L.polling]) ELSE FALSE

\* hasOpenWebHook()
HasOpenWebHook(L) == IF L.webHook # 0 THEN ReceiverIsOpen(L.receivers[L.webHook]) ELSE FALSE

\* options.restart of startPolling; arg is "undefined", "true" or "false"
RestartOption(arg) == IF arg = "undefined" THEN TRUE ELSE arg = "true"

\* the engine created anew by every startPolling
NeedsNewPollingAlways(p) == TRUE

\* if (!this._polling): the engine is created on first use only
NeedsNewPolling(p) == p = 0

\* if (!this._webHook): the receiver is created on first use only
NeedsNewWebHook(w) == w = 0

\* startPolling without the test of hasOpenWebHook()
StartPollingUnguarded(L, arg) ==
  LET restart == RestartOption(arg)
      L1 == IF NeedsNewPolling(L.polling)
              THEN [L EXCEPT !.engines = Append(@, NewEngine),
                             !.polling = Len(L.engines) + 1]
              ELSE L
      r == EngineStart(L1, L1.polling, restart)
  IN Return(r.L, "startPolling", arg, L1.polling, r.status)

\* startPolling(options)
StartPolling(L, arg) ==
  IF HasOpenWebHook(L)
    THEN Return(L, "startPolling", arg, 0, "rejected")
    ELSE LET restart == RestartOption(arg)
             L1 == IF NeedsNewPolling(L.polling)
                     THEN [L EXCEPT !.engines = Append(@, NewEngine),
                                    !.polling = Len(L.engines) + 1]
                     ELSE L
             r == EngineStart(L1, L1.polling, restart)
         IN Return(r.L, "startPolling", arg, L1.polling, r.status)

\* stopPolling returning a resolved promise without waiting for stop()
StopPollingNoWait(L) ==
  IF L.polling = 0
    THEN Return(L, "stopPolling", "undefined", 0, "resolved")
    ELSE Return(EngineStop(L, L.polling).L, "stopPolling", "undefined", L.polling, "resolved")

\* stopPolling without the test of this._polling: it fails on null
StopPollingNoNullTest(L) ==
  IF L.polling = 0
    THEN Return(L, "stopPolling", "undefined", 0, "rejected")
    ELSE LET r == EngineStop(L, L.polling)
         IN Return(r.L, "stopPolling", "undefined", L.polling, r.status)

\* stopPolling()
StopPolling(L) ==
  IF L.polling = 0
    THEN Return(L, "stopPolling", "undefined", 0, "resolved")
    ELSE LET r == EngineStop(L, L.polling)
         IN Return(r.L, "stopPolling", "undefined", L.polling, r.status)

\* openWebHook()
OpenWebHook(L) ==
  IF IsPolling(L)
    THEN Return(L, "openWebHook", "undefined", 0, "rejected")
    ELSE LET L1 == IF NeedsNewWebHook(L.webHook)
                     THEN [L EXCEPT !.receivers = Append(@, NewReceiver),
                                    !.webHook = Len(L.receivers) + 1]
                     ELSE L
             r == ReceiverOpen(L1, L1.webHook)
         IN Return(r.L, "openWebHook", "undefined", L1.webHook, r.status)

\* closeWebHook returning a resolved promise without calling close()
CloseWebHookNoClose(L) ==
  Return(L, "closeWebHook", "undefined", L.webHook, "resolved")

\* closeWebHook()
CloseWebHook(L) ==
  IF L.webHook = 0
    THEN Return(L, "closeWebHook", "undefined", 0, "resolved")
    ELSE LET r == ReceiverClose(L, L.webHook)
         IN Return(r.L, "closeWebHook", "undefined", L.webHook, r.status)

\* ---- the constructor ----

\* options.polling and options.webHook as the caller may give them: absent,
\* a boolean, or an object whose autoStart/autoOpen is absent, true or false
OptionValues == {"absent", "false", "true", "autoUndef", "autoTrue", "autoFalse"}

\* isPollingOptions(opt) ? opt.autoStart : opt, and the same for autoOpen:
\* the guard returns true for every value, so the property is always read;
\* reading it off undefined throws, off a boolean gives undefined
AutoFlag(opt) ==
  CASE opt = "absent" -> "throws"
    [] opt \in {"false", "true", "autoUndef"} -> "undefined"
    [] opt = "autoTrue" -> "true"
    [] opt = "autoFalse" -> "false"

\* new TelegramBot(token, opts): the lifecycle fields it leaves, and whether
\* it threw
Constructor(opts) ==
  LET autoStart == AutoFlag(opts.polling)
      autoOpen == AutoFlag(opts.webHook)
      L1 == IF autoStart \in {"undefined", "true"}
              THEN StartPolling(Fresh, "undefined") ELSE Fresh
      L2 == IF autoOpen \in {"undefined", "true"} THEN OpenWebHook(L1) ELSE L1
  IN IF autoStart = "throws" THEN [threw |-> TRUE, L |-> Fresh]
     ELSE IF autoOpen = "throws" THEN [threw |-> TRUE, L |-> L1]
     ELSE [threw |-> FALSE, L |-> L2]

\* ---- the state after a step ----

Set(L) ==
  /\ _polling' = L.polling
  /\ _webHook' = L.webHook
  /\ engines' = L.engines
  /\ receivers' = L.receivers
  /\ promises' = L.promises
  /\ settled' = L.settled
  /\ call' = L.call

\* a step that dispatches nothing
Quiet ==
  /\ emitted' = <<>>
  /\ invoked' = <<>>
  /\ threw' = FALSE
  /\ UNCHANGED <<ctor, options, tableVars, update, returned>>

InitWith(opts, onlyFirstMatch) ==
  LET c == Constructor(opts)
  IN /\ ctor = IF c.threw THEN "threw" ELSE "ok"
     /\ options = [polling |-> opts.polling, webHook |-> opts.webHook,
                   onlyFirstMatch |-> onlyFirstMatch]
     /\ _polling = c.L.polling
     /\ _webHook = c.L.webHook
     /\ engines = c.L.engines
     /\ receivers = c.L.receivers
     /\ promises = c.L.promises
     /\ settled = c.L.settled
     /\ call = c.L.call
     /\ _textRegexpCallbacks = <<>>
     /\ _replyListenerId = 0
     /\ _replyListeners = <<>>
     /\ handlers = {}
     /\ update = NoUpdate
     /\ emitted = <<>>
     /\ invoked = <<>>
     /\ threw = FALSE
     /\ returned = NoReturn

\* ---- lifecycle calls by the application ----

RestartArgs == {"undefined", "true", "false"}

CallStartPolling(arg) ==
  /\ ctor = "ok"
  /\ Set(StartPolling(Here, arg))
  /\ Quiet

CallStopPolling ==
  /\ ctor = "ok"
  /\ Set(StopPolling(Here))
  /\ Quiet

CallOpenWebHook ==
  /\ ctor = "ok"
  /\ Set(OpenWebHook(Here))
  /\ Quiet

CallCloseWebHook ==
  /\ ctor = "ok"
  /\ Set(CloseWebHook(Here))
  /\ Quiet

\* ---- the polling loop of engine i (section 4.2) ----

\* the update the remote side holds under id: a text message, from a chat of
\* its own
RemoteUpdate(id) ==
  [NoUpdate EXCEPT !.update_id = id,
                   !.message = [field |-> "message", keys |-> {"text"}, text |-> <<"a">>,
                                chat |-> id + 1, reply_to |-> 0]]

\* what a fetch carrying cursor from may return: up to MaxBatch distinct
\* updates, none older than the cursor
Batches(from) ==
  {b \in UNION {[1..n -> from..MaxUpdateId] : n \in 0..MaxBatch} :
     \A i, j \in DOMAIN b : i # j => b[i] # b[j]}

MaxOf(b) == CHOOSE m \in {b[i] : i \in DOMAIN b} : \A i \in DOMAIN b : b[i] <= m

\* the cursor after a batch: max(update_id) + 1, unchanged by an empty batch
Advance(offset, b) == IF b = <<>> THEN offset ELSE MaxOf(b) + 1

\* the fan-out of a batch given up at the first dispatch that throws
RECURSIVE DispatchAllUntilThrow(_, _, _)
DispatchAllUntilThrow(b, i, acc) ==
  IF i > Len(b) THEN acc
  ELSE LET R == ProcessUpdate(RemoteUpdate(b[i]), acc.regs, acc.listeners, handlers,
                              options.onlyFirstMatch)
           acc1 == [emits |-> acc.emits \o R.emits, invoked |-> acc.invoked \o R.invoked,
                    regs |-> R.regs, listeners |-> R.listeners, threw |-> FALSE]
       IN IF R.threw THEN acc1 ELSE DispatchAllUntilThrow(b, i + 1, acc1)

\* the batch is handed to processUpdate in array order; a dispatch that
\* throws is cut off there and the next update is dispatched all the same
RECURSIVE DispatchAll(_, _, _)
DispatchAll(b, i, acc) ==
  IF i > Len(b) THEN acc
  ELSE LET R == ProcessUpdate(RemoteUpdate(b[i]), acc.regs, acc.listeners, handlers,
                              options.onlyFirstMatch)
       IN DispatchAll(b, i + 1,
                      [emits |-> acc.emits \o R.emits, invoked |-> acc.invoked \o R.invoked,
                       regs |-> R.regs, listeners |-> R.listeners, threw |-> FALSE])

\* the loop task begins: Starting -> Running, and start() has done its work
LoopStart(i) ==
  /\ engines[i].state = "Starting"
  /\ Set(Settle([Here EXCEPT !.engines[i].state = "Running"], "startPolling", i, "resolved"))
  /\ Quiet

\* step 1: the fetch request is issued, carrying the cursor
IssueFetch(i) ==
  /\ engines[i].state = "Running"
  /\ engines[i].inflight = 0
  /\ engines[i].wait = "none"
  /\ Set([Here EXCEPT !.engines[i].inflight = 1,
                      !.engines[i].reqOffset = engines[i].offset])
  /\ Quiet

\* step 2: the request succeeds with batch b
FetchSuccess(i, b) ==
  /\ engines[i].inflight > 0
  /\ b \in Batches(engines[i].reqOffset)
  /\ LET R == DispatchAll(b, 1, Run0(_textRegexpCallbacks, _replyListeners))
     IN /\ emitted' = R.emits
        /\ invoked' = R.invoked
        /\ _textRegexpCallbacks' = R.regs
        /\ _replyListeners' = R.listeners
  /\ threw' = FALSE
  /\ Set([Here EXCEPT !.engines[i].inflight = @ - 1,
                      !.engines[i].offset = Advance(@, b),
                      !.engines[i].maxSeen = IF b = <<>> THEN @ ELSE MaxOf(b),
                      !.engines[i].batch = b,
                      !.engines[i].wait = "interval"])
  /\ UNCHANGED <<ctor, options, _replyListenerId, handlers, update, returned>>

\* a failed request ending the loop
FetchFailEndsLoop(i) ==
  /\ engines[i].inflight > 0
  /\ Set([Here EXCEPT !.engines[i].inflight = @ - 1,
                      !.engines[i].state = "Stopped"])
  /\ emitted' = <<[ev |-> "polling_error", arg |-> Null]>>
  /\ invoked' = <<>>
  /\ threw' = FALSE
  /\ UNCHANGED <<ctor, options, tableVars, update, returned>>

\* step 4: the request fails: a polling-error notification, then the backoff
FetchFail(i) ==
  /\ engines[i].inflight > 0
  /\ Set([Here EXCEPT !.engines[i].inflight = @ - 1,
                      !.engines[i].wait = "backoff"])
  /\ emitted' = <<[ev |-> "polling_error", arg |-> Null]>>
  /\ invoked' = <<>>
  /\ threw' = FALSE
  /\ UNCHANGED <<ctor, options, tableVars, update, returned>>

\* step 3: the interval or the backoff delay has passed
WaitElapsed(i) ==
  /\ engines[i].wait # "none"
  /\ Set([Here EXCEPT !.engines[i].wait = "none", !.engines[i].batch = <<>>])
  /\ Quiet

\* the loop sees the cancellation flag where a new cycle would begin: it
\* ends, stop() has done its work, and a waiting restart starts a fresh loop
ObserveStop(i) ==
  /\ engines[i].state = "Stopping"
  /\ engines[i].inflight = 0
  /\ engines[i].wait = "none"
  /\ Set(Settle([Here EXCEPT !.engines[i].state =
                               IF engines[i].restart THEN "Starting" ELSE "Stopped",
                             !.engines[i].restart = FALSE],
                "stopPolling", i, "resolved"))
  /\ Quiet

\* ---- the listener of receiver i (section 4.3) ----

\* the listener is bound: the receiver accepts connections, open() has done
\* its work
BindComplete(i) ==
  /\ receivers[i].binding
  /\ Set(Settle([Here EXCEPT !.receivers[i].binding = FALSE,
                             !.receivers[i].open = TRUE], "openWebHook", i, "resolved"))
  /\ Quiet

\* the requests a client may send
Requests ==
  {[NoRequest EXCEPT !.path = p, !.method = m, !.body = b] :
     p \in {"health", "update"}, m \in {"GET", "POST"}, b \in {"update", "garbage"}}

\* a liveness probe
HealthProbe == [NoRequest EXCEPT !.path = "health", !.method = "GET", !.body = "garbage"]

\* the body parsed as structured data: ok says whether it parsed
Parse(body) ==
  IF body = "update" THEN [ok |-> TRUE, update |-> RemoteUpdate(1)]
  ELSE [ok |-> FALSE, update |-> NoUpdate]

\* a response is sent on the connection of req; the status line of the first
\* response is the one the client sees
Respond(req, status) ==
  [req EXCEPT !.status = IF @ = 0 THEN status ELSE @, !.responses = @ + 1]

\* the request listener with the body parsed before the path is looked at
RequestListenerParseFirst(req, regs, listeners, hs, onlyFirstMatch) ==
  LET parsed == Parse(req.body)
      req1 == [req EXCEPT !.parsed = TRUE]
  IN IF ~parsed.ok
       THEN [req |-> Respond(req1, 400), run |-> Run0(regs, listeners), rejected |-> TRUE]
     ELSE IF req.path = "health"
       THEN [req |-> Respond(req1, 200), run |-> Run0(regs, listeners), rejected |-> FALSE]
     ELSE [req |-> [Respond(req1, 200) EXCEPT !.dispatched = @ + 1],
           run |-> ProcessUpdate(parsed.update, regs, listeners, hs, onlyFirstMatch),
           rejected |-> FALSE]

\* the request listener answering success whether or not the body parsed
RequestListenerAlwaysOk(req, regs, listeners, hs, onlyFirstMatch) ==
  IF req.path = "health"
    THEN [req |-> Respond(req, 200), run |-> Run0(regs, listeners), rejected |-> FALSE]
    ELSE LET parsed == Parse(req.body)
             req1 == [req EXCEPT !.parsed = TRUE]
         IN IF ~parsed.ok
              THEN [req |-> Respond(req1, 200), run |-> Run0(regs, listeners),
                    rejected |-> FALSE]
              ELSE [req |-> [Respond(req1, 200) EXCEPT !.dispatched = @ + 1],
                    run |-> ProcessUpdate(parsed.update, regs, listeners, hs, onlyFirstMatch),
                    rejected |-> FALSE]

\* the request listener dispatching before it responds, and answering a
\* server error when the dispatch fails
RequestListenerDispatchFirst(req, regs, listeners, hs, onlyFirstMatch) ==
  IF req.path = "health"
    THEN [req |-> Respond(req, 200), run |-> Run0(regs, listeners), rejected |-> FALSE]
    ELSE LET parsed == Parse(req.body)
             req1 == [req EXCEPT !.parsed = TRUE]
             R == ProcessUpdate(parsed.update, regs, listeners, hs, onlyFirstMatch)
         IN IF ~parsed.ok
              THEN [req |-> Respond(req1, 400), run |-> Run0(regs, listeners), rejected |-> TRUE]
              ELSE [req |-> [Respond(req1, IF R.threw THEN 500 ELSE 200)
                               EXCEPT !.dispatched = @ + 1],
                    run |-> R, rejected |-> FALSE]

\* the request listener: the health path is answered 200 with the body left
\* alone; any other request has its body parsed, is answered 400 when that
\* fails, and is otherwise answered 200 and handed to processUpdate, whose
\* failure comes after the response
RequestListener(req, regs, listeners, hs, onlyFirstMatch) ==
  IF req.path = "health"
    THEN [req |-> Respond(req, 200), run |-> Run0(regs, listeners), rejected |-> FALSE]
    ELSE LET parsed == Parse(req.body)
             req1 == [req EXCEPT !.parsed = TRUE]
         IN IF ~parsed.ok
              THEN [req |-> Respond(req1, 400), run |-> Run0(regs, listeners), rejected |-> TRUE]
              ELSE [req |-> [Respond(req1, 200) EXCEPT !.dispatched = @ + 1],
                    run |-> ProcessUpdate(parsed.update, regs, listeners, hs, onlyFirstMatch),
                    rejected |-> FALSE]

\* the free connection slot a new connection takes: the lowest
FreeSlot(r) == CHOOSE k \in 1..MaxConns :
                 /\ r.reqs[k] = NoRequest
                 /\ \A j \in 1..MaxConns : r.reqs[j] = NoRequest => k <= j

\* a connection is accepted and the request req arrives on it
ConnAccepted(i, req) ==
  /\ receivers[i].open
  /\ receivers[i].conns < MaxConns
  /\ Set([Here EXCEPT !.receivers[i].conns = @ + 1,
                      !.receivers[i].reqs[FreeSlot(receivers[i])] = req])
  /\ Quiet

\* the request in slot k is handled: the listener answers it and, for a
\* pushed update, calls processUpdate
HandleRequest(i, k) ==
  /\ receivers[i].reqs[k] # NoRequest
  /\ receivers[i].reqs[k].responses = 0
  /\ LET h == RequestListener(receivers[i].reqs[k], _textRegexpCallbacks, _replyListeners,
                              handlers, options.onlyFirstMatch)
     IN /\ Set([Here EXCEPT !.receivers[i].reqs[k] = h.req,
                            !.receivers[i].rejected = @ \/ h.rejected])
        /\ emitted' = h.run.emits
        /\ invoked' = h.run.invoked
        /\ threw' = h.run.threw
        /\ _textRegexpCallbacks' = h.run.regs
        /\ _replyListeners' = h.run.listeners
  /\ UNCHANGED <<ctor, options, _replyListenerId, handlers, update, returned>>

\* the answered request in slot k is done with and its connection ends
ConnDone(i) ==
  /\ receivers[i].conns > 0
  /\ \E k \in 1..MaxConns :
       /\ receivers[i].reqs[k].responses > 0
       /\ Set([Here EXCEPT !.receivers[i].conns = @ - 1,
                           !.receivers[i].reqs[k] = NoRequest])
  /\ Quiet

\* close() done with while connections are still in flight
CloseCompleteNoDrain(i) ==
  /\ ~receivers[i].open
  /\ \E p \in promises : p.op = "closeWebHook" /\ p.obj = i
  /\ Set(Settle(Here, "closeWebHook", i, "resolved"))
  /\ Quiet

\* no connection is left after close(): close() has done its work
CloseComplete(i) ==
  /\ ~receivers[i].open
  /\ receivers[i].conns = 0
  /\ \E p \in promises : p.op = "closeWebHook" /\ p.obj = i
  /\ Set(Settle(Here, "closeWebHook", i, "resolved"))
  /\ Quiet

\* ---- the lifecycle specification ----

\* the options the bot of this specification is constructed with
SpecOptions == [polling : {"autoFalse", "true"}, webHook : {"autoFalse", "true"}]

Init == \E opts \in SpecOptions : InitWith(opts, FALSE)

Next ==
  \/ \E arg \in RestartArgs : CallStartPolling(arg)
  \/ CallStopPolling
  \/ CallOpenWebHook
  \/ CallCloseWebHook
  \/ \E i \in DOMAIN engines : LoopStart(i)
  \/ \E i \in DOMAIN engines : IssueFetch(i)
  \/ \E i \in DOMAIN engines : \E b \in Batches(engines[i].reqOffset) : FetchSuccess(i, b)
  \/ \E i \in DOMAIN engines : FetchFail(i)
  \/ \E i \in DOMAIN engines : WaitElapsed(i)
  \/ \E i \in DOMAIN engines : ObserveStop(i)
  \/ \E i \in DOMAIN receivers : BindComplete(i)
  \/ \E i \in DOMAIN receivers : ConnAccepted(i, HealthProbe)
  \/ \E i \in DOMAIN receivers : \E k \in 1..MaxConns : HandleRequest(i, k)
  \/ \E i \in DOMAIN receivers : ConnDone(i)
  \/ \E i \in DOMAIN receivers : CloseComplete(i)

Spec == Init /\ [][Next]_vars

\* ======================================================================
\* The dispatcher on its own: registrations and processUpdate called by the
\* application
\* ======================================================================

MaxListenerIds == 2   \* reply-listener ids issued per bot

\* the texts, chats and message ids of the updates and registrations
Texts == {<<"a">>, <<"a", "b">>}
Chats == {1, 2}
MessageIds == {1, 2}

\* the events a throwing listener is registered for
HandlerEvents == {"message", "text", "edited_message"}

\* the keys a message has several of at once; "caption" is no subtype key
SampleKeys == {"text", "photo", "group_chat_created", "caption"}

MessageKeys == {_messageTypes[i] : i \in DOMAIN _messageTypes} \cup {"caption"}

\* the messages: every single key, several of the sample keys, and texts,
\* chats and replies on a text message or a message with no key
KeySets ==
  {{}} \cup {{k} : k \in MessageKeys} \cup
  {k \in SUBSET SampleKeys : Cardinality(k) <= MaxKeys}

Messages ==
  {[field |-> "message", keys |-> k, text |-> IF "text" \in k THEN <<"a">> ELSE <<>>,
    chat |-> 1, reply_to |-> 0] : k \in KeySets} \cup
  {[field |-> "message", keys |-> {"text"}, text |-> t, chat |-> c, reply_to |-> r] :
     t \in Texts, c \in Chats, r \in {0} \cup MessageIds} \cup
  {[field |-> "message", keys |-> {}, text |-> <<>>, chat |-> c, reply_to |-> r] :
     c \in Chats, r \in MessageIds}

\* the payloads of the variant field f
Payloads(f) ==
  IF f = "message" THEN Messages
  ELSE IF f \in {"edited_message", "channel_post", "edited_channel_post"}
    THEN {[field |-> f, keys |-> k, text |-> IF "text" \in k THEN <<"a">> ELSE <<>>,
           chat |-> 1, reply_to |-> 0] : k \in SUBSET {"text", "caption"}}
  ELSE {[field |-> f, keys |-> {}, text |-> <<>>, chat |-> 1, reply_to |-> 0]}

\* the payload a variant field has when another field is populated too
SamplePayload(f) ==
  [field |-> f,
   keys |-> IF f \in {"inline_query", "chosen_inline_result", "callback_query"}
              THEN {} ELSE {"text"},
   text |-> IF f \in {"inline_query", "chosen_inline_result", "callback_query"}
              THEN <<>> ELSE <<"a">>,
   chat |-> 1, reply_to |-> 0]

\* the updates processUpdate is called with: one field populated, two fields
\* populated, none populated, and updates without update_id (-1)
Updates ==
  UNION {{[NoUpdate EXCEPT !.update_id = 1, ![Variants[i]] = p] :
            p \in Payloads(Variants[i])} : i \in DOMAIN Variants}
  \cup
  {[NoUpdate EXCEPT !.update_id = 1, ![Variants[i]] = SamplePayload(Variants[i]),
                    ![Variants[j]] = SamplePayload(Variants[j])] :
     i \in DOMAIN Variants, j \in DOMAIN Variants}
  \cup
  {NoUpdate, [NoUpdate EXCEPT !.update_id = 1],
   [NoUpdate EXCEPT !.message = SamplePayload("message")]}

\* the registrations the bot holds
RegCount == Cardinality(handlers) + Len(_textRegexpCallbacks) + Len(_replyListeners)

\* no processUpdate or removeReplyListener call is on record
Idle ==
  update = NoUpdate /\ emitted = <<>> /\ invoked = <<>> /\ ~threw /\ returned = NoReturn

\* bot.on(ev, listener), inherited from EventEmitter, with a listener that throws
On(ev) ==
  /\ ctor = "ok"
  /\ Idle
  /\ RegCount < MaxRegs
  /\ ev \notin handlers
  /\ handlers' = handlers \cup {ev}
  /\ UNCHANGED <<ctor, options, lifecycleVars, _textRegexpCallbacks, _replyListeners,
                 _replyListenerId, dispatchVars>>

\* onText(regexp, callback)
OnText(regexp, callback) ==
  /\ ctor = "ok"
  /\ Idle
  /\ RegCount < MaxRegs
  /\ _textRegexpCallbacks' =
       Append(_textRegexpCallbacks, [regexp |-> regexp, callback |-> callback])
  /\ UNCHANGED <<ctor, options, lifecycleVars, _replyListeners, _replyListenerId,
                 handlers, dispatchVars>>

\* onReplyToMessage numbering the listener by its place in the table
OnReplyToMessagePlaceId(chatId, messageId, callback) ==
  /\ ctor = "ok"
  /\ Idle
  /\ RegCount < MaxRegs
  /\ _replyListenerId < MaxListenerIds
  /\ LET id == Len(_replyListeners) + 1
     IN /\ _replyListenerId' = id
        /\ _replyListeners' =
             Append(_replyListeners, [id |-> id, chatId |-> chatId,
                                      messageId |-> messageId, callback |-> callback])
  /\ UNCHANGED <<ctor, options, lifecycleVars, _textRegexpCallbacks, handlers,
                 dispatchVars>>

\* onReplyToMessage(chatId, messageId, callback)
OnReplyToMessage(chatId, messageId, callback) ==
  /\ ctor = "ok"
  /\ Idle
  /\ RegCount < MaxRegs
  /\ _replyListenerId < MaxListenerIds
  /\ LET id == _replyListenerId + 1
     IN /\ _replyListenerId' = id
        /\ _replyListeners' =
             Append(_replyListeners, [id |-> id, chatId |-> chatId,
                                      messageId |-> messageId, callback |-> callback])
  /\ UNCHANGED <<ctor, options, lifecycleVars, _textRegexpCallbacks, handlers,
                 dispatchVars>>

\* removeReplyListener(replyListenerId)
RemoveReplyListener(replyListenerId) ==
  /\ ctor = "ok"
  /\ Idle
  /\ LET index == FindIndex(_replyListeners, replyListenerId)
     IN IF index = 0
          THEN /\ returned' = [id |-> replyListenerId, value |-> NoListener]
               /\ _replyListeners' = _replyListeners
          ELSE /\ returned' = [id |-> replyListenerId, value |-> _replyListeners[index]]
               /\ _replyListeners' = Splice(_replyListeners, index)
  /\ UNCHANGED <<ctor, options, lifecycleVars, _textRegexpCallbacks, _replyListenerId,
                 handlers, update, emitted, invoked, threw>>

\* processUpdate(u) called by the application
CallProcessUpdate(u) ==
  /\ ctor = "ok"
  /\ Idle
  /\ LET R == ProcessUpdate(u, _textRegexpCallbacks, _replyListeners, handlers,
                            options.onlyFirstMatch)
     IN /\ emitted' = R.emits
        /\ invoked' = R.invoked
        /\ threw' = R.threw
        /\ _textRegexpCallbacks' = R.regs
        /\ _replyListeners' = R.listeners
  /\ update' = u
  /\ UNCHANGED <<ctor, options, lifecycleVars, _replyListenerId, handlers, returned>>

\* the call on record has returned: its record is dropped
ProcessUpdateReturns ==
  /\ ~Idle
  /\ update' = NoUpdate
  /\ emitted' = <<>>
  /\ invoked' = <<>>
  /\ threw' = FALSE
  /\ returned' = NoReturn
  /\ UNCHANGED <<ctor, options, lifecycleVars, tableVars>>

\* the callbacks registered: one may throw, and the callback of a reply
\* listener may remove its own listener
Callbacks == [throws : BOOLEAN, removes : {FALSE}]

ReplyCallbacks == [throws : BOOLEAN, removes : BOOLEAN]

\* the patterns registered: /a/, /b/ and /a/g
RegExps ==
  {[src |-> <<"a">>, global |-> FALSE, lastIndex |-> 0],
   [src |-> <<"b">>, global |-> FALSE, lastIndex |-> 0],
   [src |-> <<"a">>, global |-> TRUE, lastIndex |-> 0]}

InitDispatch ==
  \E onlyFirstMatch \in BOOLEAN :
    InitWith([polling |-> "autoFalse", webHook |-> "autoFalse"], onlyFirstMatch)

NextDispatch ==
  \/ \E ev \in HandlerEvents : On(ev)
  \/ \E regexp \in RegExps, callback \in Callbacks : OnText(regexp, callback)
  \/ \E chatId \in Chats, messageId \in MessageIds, callback \in ReplyCallbacks :
       OnReplyToMessage(chatId, messageId, callback)
  \/ \E id \in 1..(MaxListenerIds + 1) : RemoveReplyListener(id)
  \/ \E u \in Updates : CallProcessUpdate(u)
  \/ ProcessUpdateReturns

SpecDispatch == InitDispatch /\ [][NextDispatch]_vars

\* ======================================================================
\* Properties of the transport lifecycle and the polling engine
\* ======================================================================

\* the fields the lifecycle calls may change, without the deferreds
Core(L) == <<L.polling, L.webHook, L.engines, L.receivers>>

\* the cursor of the bot: the offset of its engine
Cursor == IF _polling = 0 THEN 0 ELSE engines[_polling].offset

\* the largest update_id fetched so far
MaxSeen == IF _polling = 0 THEN -1 ELSE engines[_polling].maxSeen

RECURSIVE SumInflight(_, _)
SumInflight(es, i) == IF i > Len(es) THEN 0 ELSE es[i].inflight + SumInflight(es, i + 1)

\* the fetch requests outstanding, over every engine the bot has created
TotalInflight == SumInflight(engines, 1)

\* the latest step completed a polling cycle with at least one update
BatchDispatched == emitted # <<>> /\ emitted[1].ev = "message"

\* C1: isPolling() and hasOpenWebHook() are never both true.
C1_MutualExclusion == ~(IsPolling(Here) /\ HasOpenWebHook(Here))

\* C2: startPolling called while a webhook is open, and openWebHook called
\* while polling, are rejected and change neither the engine nor the receiver.
C2_RejectedActivation ==
  [][/\ (call'.op = "startPolling" /\ HasOpenWebHook(Here))
          => (call'.status = "rejected" /\ Core(Here)' = Core(Here))
     /\ (call'.op = "openWebHook" /\ IsPolling(Here))
          => (call'.status = "rejected" /\ Core(Here)' = Core(Here))]_vars

C2_Witness ==
  /\ call.op = "startPolling"
  /\ call.status = "rejected"
  /\ HasOpenWebHook(Here)
  /\ ~IsPolling(Here)

\* C3: the cursor never decreases; after a cycle that returned updates it is
\* the largest update_id seen so far plus one; after an empty or a failed
\* cycle it is what it was.
C3_Cursor ==
  [][/\ Cursor' >= Cursor
     /\ (TotalInflight' < TotalInflight)
          => IF BatchDispatched' THEN Cursor' = MaxSeen' + 1 ELSE Cursor' = Cursor]_vars

C3_Witness ==
  /\ _polling # 0
  /\ emitted # <<>>
  /\ emitted[1].ev = "polling_error"
  /\ Cursor = MaxSeen + 1
  /\ Cursor >= 2

\* C4: at most one fetch request is outstanding, also when startPolling with
\* restart is called again while a request is in flight.
C4_OneFetch == TotalInflight <= 1

C4_Witness ==
  /\ call.op = "startPolling"
  /\ call.arg = "true"
  /\ call.status = "pending"
  /\ TotalInflight = 1
  /\ \E p \in promises : p.op = "startPolling" /\ ~p.fresh

\* C5: stopPolling leaves the request in flight alone; its deferred settles
\* with no request in flight and, unless startPolling was called after it,
\* with the engine stopped; a stopped engine issues no request and stays
\* stopped until startPolling is called.
C5_Settled ==
  \A s \in settled :
    (s.op = "stopPolling" /\ s.status = "resolved" /\ s.obj # 0)
      => /\ engines[s.obj].inflight = 0
         /\ engines[s.obj].state \in {"Stopped", "Starting"}
         /\ s.fresh => engines[s.obj].state = "Stopped"

C5_Step ==
  /\ call'.op = "stopPolling" => TotalInflight' = TotalInflight
  /\ \A i \in DOMAIN engines :
       /\ engines'[i].inflight > engines[i].inflight => engines[i].state = "Running"
       /\ (engines[i].state = "Stopped" /\ engines'[i].state # "Stopped")
            => call'.op = "startPolling"

C5_StopPolling == []C5_Settled /\ [][C5_Step]_vars

C5_Witness ==
  /\ call = NoCall
  /\ \E s \in settled : s.op = "stopPolling" /\ s.status = "resolved" /\ s.fresh
  /\ emitted = <<>>
  /\ Cursor >= 1

\* C6: startPolling with restart false, called while a loop is running,
\* resolves and leaves the loop as it is; an omitted restart acts as true.
C6_NoRestart ==
  [][/\ (/\ call'.op = "startPolling"
         /\ call'.arg = "false"
         /\ _polling # 0
         /\ engines[_polling].state \in {"Starting", "Running"})
          => (call'.status = "resolved" /\ Core(Here)' = Core(Here))
     /\ Core(StartPolling(Here, "undefined")) = Core(StartPolling(Here, "true"))]_vars

\* C7: a deferred that resolves with no lifecycle call issued after its own
\* finds the requested state reached.
C7_SettledWhenReached ==
  \A s \in settled :
    (s.status = "resolved" /\ s.fresh)
      => /\ s.op = "startPolling" => IsPolling(Here)
         /\ s.op = "stopPolling" => ~IsPolling(Here)
         /\ s.op = "openWebHook" => HasOpenWebHook(Here)
         /\ s.op = "closeWebHook" => ~HasOpenWebHook(Here)

C7_Witness ==
  /\ call = NoCall
  /\ \E s \in settled : s.op = "closeWebHook" /\ s.status = "resolved" /\ s.fresh
  /\ _webHook # 0

\* C8: stopPolling when not polling and closeWebHook when no webhook is open
\* resolve and change nothing; calling either twice in a row leaves the
\* state one call leaves.
C8_Step ==
  /\ (call'.op = "stopPolling" /\ ~IsPolling(Here))
       => (call'.status = "resolved" /\ Core(Here)' = Core(Here))
  /\ (call'.op = "closeWebHook" /\ ~HasOpenWebHook(Here))
       => (call'.status = "resolved" /\ Core(Here)' = Core(Here))

C8_Twice ==
  /\ Core(StopPolling(StopPolling(Here))) = Core(StopPolling(Here))
  /\ Core(CloseWebHook(CloseWebHook(Here))) = Core(CloseWebHook(Here))

C8_IdempotentNoOp == []C8_Twice /\ [][C8_Step]_vars

C8_Witness ==
  /\ call.op = "stopPolling"
  /\ call.status = "resolved"
  /\ _polling = 0
  /\ HasOpenWebHook(Here)

\* ======================================================================
\* Properties of processUpdate
\* ======================================================================

\* the position in Variants of the first populated field of u; 0 when none is
FirstPopulated(u) ==
  IF \E i \in DOMAIN Variants : Truthy(u[Variants[i]])
    THEN CHOOSE i \in DOMAIN Variants :
           /\ Truthy(u[Variants[i]])
           /\ \A j \in DOMAIN Variants : Truthy(u[Variants[j]]) => i <= j
    ELSE 0

\* the notifications that belong to the branch of the variant field f
BranchEvents(f) ==
  IF f = "message"
    THEN {"message"} \cup {_messageTypes[i] : i \in DOMAIN _messageTypes}
    ELSE {f, f \o "_text", f \o "_caption"}

\* how many entries of the log carry the event ev
Count(log, ev) == Cardinality({i \in DOMAIN log : log[i].ev = ev})

\* C9: the first populated variant field, in the fixed order, decides the
\* branch: its category notification comes first, and every notification
\* and callback of the call belongs to that branch and carries its payload.
C9_FirstPopulatedWins ==
  LET i == FirstPopulated(update)
  IN i # 0 =>
       LET f == Variants[i]
       IN /\ emitted # <<>>
          /\ emitted[1].ev = f
          /\ \A k \in DOMAIN emitted :
               emitted[k].ev \in BranchEvents(f) /\ emitted[k].arg = update[f]
          /\ \A k \in DOMAIN invoked : f = "message" /\ invoked[k].arg = update[f]

C9_Witness ==
  /\ Truthy(update.message)
  /\ Truthy(update.callback_query)
  /\ emitted = <<[ev |-> "message", arg |-> update.message],
                 [ev |-> "text", arg |-> update.message]>>

\* C10: in the message branch the message notification is emitted once and
\* first, then one notification for every populated key of the subtype list
\* and none for an absent key, each with the message.
C10_MessageSubtypes ==
  Truthy(update.message) =>
    /\ emitted # <<>>
    /\ emitted[1].ev = "message"
    /\ Count(emitted, "message") = 1
    /\ \A i \in DOMAIN _messageTypes :
         Count(emitted, _messageTypes[i]) =
           IF Has(update.message, _messageTypes[i]) THEN 1 ELSE 0
    /\ \A k \in DOMAIN emitted : emitted[k].arg = update.message

\* the pattern of regexp occurs in text, whatever lastIndex is
Matches(regexp, text) == \E i \in 0..Len(text) : MatchesAt(regexp.src, text, i)

\* the positions of the matchers from i on whose pattern occurs in text, in
\* registration order
RECURSIVE MatchingFrom(_, _, _)
MatchingFrom(regs, text, i) ==
  IF i > Len(regs) THEN <<>>
  ELSE (IF Matches(regs[i].regexp, text) THEN <<i>> ELSE <<>>)
         \o MatchingFrom(regs, text, i + 1)

\* who was invoked, in order, among the callbacks of one kind
RECURSIVE Who(_, _)
Who(log, kind) ==
  IF log = <<>> THEN <<>>
  ELSE (IF Head(log).kind = kind THEN <<Head(log).who>> ELSE <<>>) \o Who(Tail(log), kind)

\* C11: for a message with text, the callbacks invoked are those of the
\* matchers whose pattern matches the text, in registration order: the first
\* of them alone with onlyFirstMatch, each of them once without.  Stated for
\* the calls that no listener or callback ends by throwing.
C11_TextMatchers ==
  (Truthy(update.message) /\ Has(update.message, "text") /\ ~threw) =>
    LET m == MatchingFrom(_textRegexpCallbacks, update.message.text, 1)
    IN Who(invoked, "text") =
         IF options.onlyFirstMatch /\ m # <<>> THEN <<m[1]>> ELSE m

\* the ids of the reply listeners from i on registered for (chat, reply_to)
\* of the message, in registration order
RECURSIVE WaitingFor(_, _, _)
WaitingFor(listeners, message, i) ==
  IF i > Len(listeners) THEN <<>>
  ELSE (IF listeners[i].chatId = message.chat /\ listeners[i].messageId = message.reply_to
          THEN <<listeners[i].id>> ELSE <<>>)
         \o WaitingFor(listeners, message, i + 1)

C12_Fired ==
  (Truthy(update.message) /\ update.message.reply_to # 0
     /\ \A k \in DOMAIN invoked : ~invoked[k].removes) =>
    Who(invoked, "reply") = WaitingFor(_replyListeners, update.message, 1)

C12_Kept ==
  (update' # NoUpdate /\ \A k \in DOMAIN invoked' : ~invoked'[k].removes)
    => _replyListeners' = _replyListeners

\* C12: a message that replies to message m in chat c invokes the callback of
\* every reply listener registered for (c, m) once and of no other reply
\* listener, and processUpdate leaves the listeners registered.  Stated for
\* the calls in which no callback removes a listener.
C12_ReplyListeners == []C12_Fired /\ [][C12_Kept]_vars

\* the reply listeners registered under id (the ids issued are distinct)
C13_Registered(id) == {i \in DOMAIN _replyListeners : _replyListeners[i].id = id}

C13_Step ==
  returned'.id # 0 =>
    LET id == returned'.id
    IN /\ IF C13_Registered(id) # {}
            THEN /\ \E i \in C13_Registered(id) : returned'.value = _replyListeners[i]
                 /\ _replyListeners' = SelectSeq(_replyListeners, LAMBDA l : l.id # id)
                 /\ Len(_replyListeners') = Len(_replyListeners) - 1
            ELSE /\ returned'.value = NoListener
                 /\ _replyListeners' = _replyListeners
       /\ UNCHANGED <<_textRegexpCallbacks, _replyListenerId, handlers>>

Branch == IF FirstPopulated(update) = 0 THEN "null" ELSE Variants[FirstPopulated(update)]

\* the category notification and the derived ones are emitted as the payload
\* of the branch f has text and caption
C14_Derived(f) ==
  /\ Count(emitted, f) = 1
  /\ Count(emitted, f \o "_text") = IF "text" \in update[f].keys THEN 1 ELSE 0
  /\ Count(emitted, f \o "_caption") = IF "caption" \in update[f].keys THEN 1 ELSE 0
  /\ \A k \in DOMAIN emitted : emitted[k].arg = update[f]

\* C14: in each of the branches edited_message, channel_post and
\* edited_channel_post the category notification is emitted, the derived
\* _text notification exactly when the payload has text, and the derived
\* _caption notification exactly when it has a caption.  Stated for the
\* calls that no listener ends by throwing.
C14_DerivedNotifications ==
  (Branch \in {"edited_message", "channel_post", "edited_channel_post"} /\ ~threw)
    => C14_Derived(Branch)

\* C15: in the inline_query, chosen_inline_result and callback_query
\* branches processUpdate emits one notification, that of the category with
\* the payload, and invokes no text matcher and no reply listener.
C15_QueryBranches ==
  Branch \in {"inline_query", "chosen_inline_result", "callback_query"} =>
    /\ emitted = <<[ev |-> Branch, arg |-> update[Branch]]>>
    /\ invoked = <<>>

C15_Witness ==
  /\ Branch = "inline_query"
  /\ Truthy(update.callback_query)
  /\ emitted = <<[ev |-> "inline_query", arg |-> update.inline_query]>>
  /\ _textRegexpCallbacks # <<>>
  /\ _replyListeners # <<>>

\* C16: processUpdate on an update without update_id, or with none of the
\* seven variant fields populated, emits nothing, invokes no callback and
\* raises no error.
C16_Malformed ==
  (update.update_id = -1 \/ FirstPopulated(update) = 0) =>
    /\ emitted = <<>>
    /\ invoked = <<>>
    /\ ~threw

\* C17: a listener or callback that throws during a dispatch keeps no other
\* matching callback from being invoked (the notifications of the populated
\* subtype keys are emitted, the reply listeners of the replied message are
\* invoked), and the failure does not reach the caller of processUpdate.
C17_Isolation ==
  /\ ~threw
  /\ C10_MessageSubtypes
  /\ C12_Fired

\* ======================================================================
\* The webhook receiver serving requests: a bot constructed with its webhook
\* opened, subscribers that throw, and clients sending every kind of request
\* ======================================================================

InitWebHook == InitWith([polling |-> "autoFalse", webHook |-> "true"], FALSE)

NextWebHook ==
  \/ \E ev \in HandlerEvents : On(ev)
  \/ CallOpenWebHook
  \/ CallCloseWebHook
  \/ \E i \in DOMAIN receivers : BindComplete(i)
  \/ \E i \in DOMAIN receivers : \E req \in Requests : ConnAccepted(i, req)
  \/ \E i \in DOMAIN receivers : \E k \in 1..MaxConns : HandleRequest(i, k)
  \/ \E i \in DOMAIN receivers : ConnDone(i)
  \/ \E i \in DOMAIN receivers : CloseComplete(i)

\* the listener of a request that has arrived runs: the event loop calls it
SpecWebHook ==
  /\ InitWebHook
  /\ [][NextWebHook]_vars
  /\ \A k \in 1..MaxConns : WF_vars(\E i \in DOMAIN receivers : HandleRequest(i, k))

\* the requests in the connection slots of the receivers
InSlots == {receivers[i].reqs[k] : i \in DOMAIN receivers, k \in 1..MaxConns} \ {NoRequest}

\* the latest step handled the request in slot k of receiver i
Handled(i, k) ==
  /\ i \in DOMAIN receivers
  /\ receivers[i].reqs[k].responses = 0
  /\ receivers'[i].reqs[k].responses > 0

C18_Answered ==
  \A req \in InSlots :
    (req.path = "health" /\ req.responses > 0)
      => (req.status = 200 /\ ~req.parsed /\ req.dispatched = 0)

C18_Step ==
  \A i \in DOMAIN receivers, k \in 1..MaxConns :
    (Handled(i, k) /\ receivers[i].reqs[k].path = "health")
      => (emitted' = <<>> /\ invoked' = <<>> /\ ~threw')

\* C18: a request to the health path is answered 200 whatever its method
\* and body, its body is not parsed and the dispatcher is not invoked.
C18_HealthPath == []C18_Answered /\ [][C18_Step]_vars

C18_Witness ==
  \E req \in InSlots :
    /\ req.path = "health"
    /\ req.method = "POST"
    /\ req.body = "update"
    /\ req.status = 200
    /\ handlers # {}

C19_Answered ==
  \A req \in InSlots :
    (req.path = "update" /\ req.body = "garbage" /\ req.responses > 0)
      => (req.status \in 400..499 /\ req.dispatched = 0)

C19_Step ==
  \A i \in DOMAIN receivers, k \in 1..MaxConns :
    (Handled(i, k) /\ receivers[i].reqs[k].path = "update")
      => IF receivers[i].reqs[k].body = "garbage"
           THEN /\ emitted' = <<>> /\ invoked' = <<>> /\ ~threw'
                /\ receivers'[i].open = receivers[i].open
                /\ receivers'[i].binding = receivers[i].binding
                /\ receivers'[i].conns = receivers[i].conns
           ELSE receivers[i].rejected
                  => /\ receivers'[i].reqs[k].status = 200
                     /\ receivers'[i].reqs[k].dispatched = 1
                     /\ emitted' # <<>>

\* C19: a request off the health path whose body does not parse is answered
\* with a 4xx status and not dispatched, and the receiver stays as open as it
\* was: a valid request handled after it is answered 200 and dispatched.
C19_ParseFailure == []C19_Answered /\ [][C19_Step]_vars

C19_Witness ==
  \E i \in DOMAIN receivers :
    /\ receivers[i].rejected
    /\ receivers[i].open
    /\ \E k \in 1..MaxConns :
         /\ receivers[i].reqs[k].body = "update"
         /\ receivers[i].reqs[k].path = "update"
         /\ receivers[i].reqs[k].status = 200
         /\ receivers[i].reqs[k].dispatched = 1
    /\ emitted # <<>>

\* the request in slot k has not been answered
C20_Waiting(k) ==
  \E i \in DOMAIN receivers :
    receivers[i].reqs[k] # NoRequest /\ receivers[i].reqs[k].responses = 0

C20_Answered ==
  \A req \in InSlots :
    /\ req.responses <= 1
    /\ (req.path = "update" /\ req.body = "update" /\ req.responses > 0)
         => (req.status = 200 /\ req.dispatched = 1)

C20_Step ==
  \A i \in DOMAIN receivers, k \in 1..MaxConns :
    /\ (Handled(i, k) /\ receivers[i].reqs[k].path = "update"
          /\ receivers[i].reqs[k].body = "update")
         => /\ emitted' # <<>>
            /\ emitted'[1] = [ev |-> "message", arg |-> Parse("update").update.message]
            /\ receivers'[i].reqs[k].status = 200
    /\ (receivers[i].reqs[k] # NoRequest /\ receivers'[i].reqs[k] = NoRequest)
         => receivers[i].reqs[k].responses = 1
    /\ (receivers[i].reqs[k].responses > 0 /\ receivers'[i].reqs[k] # NoRequest)
         => receivers'[i].reqs[k] = receivers[i].reqs[k]

\* C20: every request the receiver accepted gets one response and no second
\* one; a request off the health path whose body parses is answered 200 and
\* its update is handed to processUpdate once, and the response is the same
\* when that dispatch fails.
C20_OneResponse ==
  /\ []C20_Answered
  /\ [][C20_Step]_vars
  /\ \A k \in 1..MaxConns : C20_Waiting(k) ~> ~C20_Waiting(k)

C20_Witness ==
  /\ threw
  /\ \E req \in InSlots :
       /\ req.path = "update"
       /\ req.body = "update"
       /\ req.status = 200
       /\ req.responses = 1
       /\ req.dispatched = 1

\* the deferred of a closeWebHook call is pending on receiver i
C21_Closing(i) == \E p \in promises : p.op = "closeWebHook" /\ p.obj = i

C21_Step ==
  /\ (call'.op = "closeWebHook" /\ HasOpenWebHook(Here))
       => /\ call'.status = "pending"
          /\ ~HasOpenWebHook(Here)'
          /\ receivers'[_webHook].reqs = receivers[_webHook].reqs
          /\ receivers'[_webHook].conns = receivers[_webHook].conns
  /\ \A i \in DOMAIN receivers :
       /\ receivers'[i].conns > receivers[i].conns => receivers[i].open
       /\ (C21_Closing(i) /\ ~C21_Closing(i)')
            => (receivers[i].conns = 0 /\ receivers'[i].conns = 0)
       /\ (C21_Closing(i) /\ receivers'[i].conns < receivers[i].conns)
            => \E k \in 1..MaxConns :
                 receivers[i].reqs[k].responses = 1 /\ receivers'[i].reqs[k] = NoRequest

InitPolling == InitWith([polling |-> "true", webHook |-> "autoFalse"], FALSE)

NextPolling ==
  \/ \E ev \in HandlerEvents : On(ev)
  \/ \E arg \in RestartArgs : CallStartPolling(arg)
  \/ CallStopPolling
  \/ \E i \in DOMAIN engines : LoopStart(i)
  \/ \E i \in DOMAIN engines : IssueFetch(i)
  \/ \E i \in DOMAIN engines : \E b \in Batches(engines[i].reqOffset) : FetchSuccess(i, b)
  \/ \E i \in DOMAIN engines : FetchFail(i)
  \/ \E i \in DOMAIN engines : WaitElapsed(i)
  \/ \E i \in DOMAIN engines : ObserveStop(i)

\* the loop task takes its next step when it can, and timers fire
SpecPolling ==
  /\ InitPolling
  /\ [][NextPolling]_vars
  /\ WF_vars(\E i \in DOMAIN engines : IssueFetch(i))
  /\ WF_vars(\E i \in DOMAIN engines : WaitElapsed(i))

\* the loop of the bot's engine is running
C22_Running == _polling # 0 /\ engines[_polling].state = "Running"

\* the engine has a request in flight that carries its cursor
C22_Fetching ==
  /\ _polling # 0
  /\ engines[_polling].inflight = 1
  /\ engines[_polling].reqOffset = engines[_polling].offset

C22_Step ==
  \A i \in DOMAIN engines :
    /\ (engines'[i].inflight < engines[i].inflight /\ engines'[i].wait # "interval")
         => /\ engines'[i].wait = "backoff"
            /\ engines'[i].offset = engines[i].offset
            /\ engines'[i].state = engines[i].state
            /\ emitted' = <<[ev |-> "polling_error", arg |-> Null]>>
            /\ invoked' = <<>>
    /\ engines'[i].inflight > engines[i].inflight
         => /\ engines[i].wait = "none"
            /\ engines[i].state = "Running"
            /\ engines'[i].reqOffset = engines[i].offset
    /\ engines[i].inflight = 0 => engines'[i].offset = engines[i].offset

\* C22: a failed fetch leaves the cursor and the state of the loop as they
\* were and produces one polling-error notification; no request is issued
\* while the loop waits; and unless the loop has been told to stop, the
\* backoff is followed by a request that carries the same cursor.
C22_FailedFetch ==
  /\ [][C22_Step]_vars
  /\ (C22_Running /\ engines[_polling].wait = "backoff") ~> (C22_Fetching \/ ~C22_Running)

C22_Witness ==
  /\ C22_Running
  /\ engines[_polling].wait = "backoff"
  /\ engines[_polling].offset >= 1
  /\ emitted = <<[ev |-> "polling_error", arg |-> Null]>>

\* the chats of the message notifications in the log, in order
RECURSIVE MessageChats(_)
MessageChats(log) ==
  IF log = <<>> THEN <<>>
  ELSE (IF Head(log).ev = "message" THEN <<Head(log).arg.chat>> ELSE <<>>)
         \o MessageChats(Tail(log))

C23_Step ==
  \A i \in DOMAIN engines :
    (engines'[i].inflight < engines[i].inflight /\ engines'[i].wait = "interval")
      => LET b == engines'[i].batch
         IN /\ MessageChats(emitted') = [k \in 1..Len(b) |-> RemoteUpdate(b[k]).message.chat]
            /\ \A k \in 1..Len(b) : engines'[i].offset > b[k]
            /\ b # <<>> => \E k \in 1..Len(b) : engines'[i].offset = b[k] + 1
            /\ b = <<>> => engines'[i].offset = engines[i].offset
            /\ engines'[i].state = engines[i].state
            /\ ~threw'

\* C23: the updates of a fetched batch reach processUpdate in array order,
\* each of them also when the dispatch of an earlier one threw; the cursor
\* moves past the batch, the loop keeps its state, and unless it has been
\* told to stop the interval is followed by the next request.
C23_BatchFanOut ==
  /\ [][C23_Step]_vars
  /\ (C22_Running /\ engines[_polling].wait = "interval") ~> (C22_Fetching \/ ~C22_Running)

C23_Witness ==
  /\ "message" \in handlers
  /\ C22_Running
  /\ engines[_polling].batch = <<1, 0>>
  /\ MessageChats(emitted) = <<2, 1>>
  /\ Len(emitted) = 2
  /\ engines[_polling].offset = 2

\* ======================================================================
\* The constructor over every form of options.polling and options.webHook,
\* followed by lifecycle calls
\* ======================================================================

InitConstruct ==
  \E opts \in [polling : OptionValues, webHook : OptionValues] : InitWith(opts, FALSE)

NextConstruct ==
  \/ \E arg \in RestartArgs : CallStartPolling(arg)
  \/ CallStopPolling
  \/ CallOpenWebHook
  \/ CallCloseWebHook
  \/ \E i \in DOMAIN engines : LoopStart(i)
  \/ \E i \in DOMAIN engines : ObserveStop(i)
  \/ \E i \in DOMAIN receivers : BindComplete(i)
  \/ \E i \in DOMAIN receivers : CloseComplete(i)

SpecConstruct == InitConstruct /\ [][NextConstruct]_vars

\* the bot as new TelegramBot(token, options) leaves it
C24_Constructed == Constructor([polling |-> options.polling, webHook |-> options.webHook])

\* C24: a bot constructed with options.polling absent or false is
\* constructed (the constructor does not throw) and is not polling; one
\* constructed with options.webHook absent or false has no webhook open or
\* being opened.
C24_ConstructorActivation ==
  /\ options.polling \in {"absent", "false"}
       => (~C24_Constructed.threw /\ ~IsPolling(C24_Constructed.L))
  /\ options.webHook \in {"absent", "false"}
       => (C24_Constructed.L.webHook # 0
             => /\ ~C24_Constructed.L.receivers[C24_Constructed.L.webHook].open
                /\ ~C24_Constructed.L.receivers[C24_Constructed.L.webHook].binding)

\* the position of the first occurrence of the pattern in text: the index of
\* the result of exec on the pattern as registered
FirstMatch(regexp, text) ==
  CHOOSE i \in 0..Len(text) :
    /\ MatchesAt(regexp.src, text, i)
    /\ \A j \in 0..Len(text) : MatchesAt(regexp.src, text, j) => i <= j

\* C25: a message whose text matches a pattern registered with onText emits
\* message once and text once and invokes the callback of the pattern once,
\* with the message and the match.  Stated for the calls that nothing ends
\* by throwing, with onlyFirstMatch unset.
C25_OnTextCallback ==
  (Truthy(update.message) /\ Has(update.message, "text") /\ ~threw
     /\ ~options.onlyFirstMatch) =>
    \A i \in DOMAIN _textRegexpCallbacks :
      Matches(_textRegexpCallbacks[i].regexp, update.message.text) =>
        /\ Count(emitted, "message") = 1
        /\ Count(emitted, "text") = 1
        /\ Cardinality({k \in DOMAIN invoked :
                          invoked[k].kind = "text" /\ invoked[k].who = i}) = 1
        /\ \A k \in DOMAIN invoked :
             (invoked[k].kind = "text" /\ invoked[k].who = i)
               => /\ invoked[k].arg = update.message
                  /\ invoked[k].match =
                       FirstMatch(_textRegexpCallbacks[i].regexp, update.message.text)

\* C26: openWebHook on an open webhook resolves and changes nothing; the bot
\* never has a second receiver, and the receiver it has is the one every
\* later activation uses.
C26_Step ==
  /\ (call'.op = "openWebHook" /\ HasOpenWebHook(Here))
       => (call'.status = "resolved" /\ Core(Here)' = Core(Here) /\ HasOpenWebHook(Here)')
  /\ _webHook # 0 => _webHook' = _webHook

C26_OpenWhileOpen == [](Len(receivers) <= 1) /\ [][C26_Step]_vars

\* the ids of the reply listeners registered
C28_Ids == {_replyListeners[i].id : i \in DOMAIN _replyListeners}

C28_Distinct ==
  /\ \A i, j \in DOMAIN _replyListeners :
       _replyListeners[i].id = _replyListeners[j].id => i = j
  /\ \A id \in C28_Ids : id <= _replyListenerId

C28_Step ==
  /\ _replyListenerId' >= _replyListenerId
  /\ \A id \in C28_Ids' \ C28_Ids : id > _replyListenerId /\ id = _replyListenerId'

\* C28: every id onReplyToMessage issues is greater than every id issued
\* before, whatever was removed in between: the ids in the table are
\* distinct and an id once removed is not issued again.
C28_MonotonicIds == []C28_Distinct /\ [][C28_Step]_vars

C28_Witness ==
  /\ _replyListenerId = 2
  /\ C28_Ids = {2}
  /\ Len(_replyListeners) = 1

\* C29: exclusion looks at the present state alone: with the deferred of
\* stopPolling settled, openWebHook is accepted and the webhook opens; with
\* the deferred of closeWebHook settled, startPolling is accepted and the
\* bot polls.
C29_AfterSettled ==
  /\ (\E s \in settled : s.op = "stopPolling" /\ s.status = "resolved" /\ s.fresh)
       => LET L == OpenWebHook(Here)
          IN /\ L.call.status # "rejected"
             /\ L.webHook # 0
             /\ (L.receivers[L.webHook].open \/ L.receivers[L.webHook].binding)
  /\ (\E s \in settled : s.op = "closeWebHook" /\ s.status = "resolved" /\ s.fresh)
       => LET L == StartPolling(Here, "undefined")
          IN L.call.status # "rejected" /\ IsPolling(L)

C29_Step ==
  /\ (call'.op = "openWebHook" /\ _polling # 0
        /\ engines[_polling].state = "Stopped")
       => (call'.status # "rejected" /\ _webHook' # 0
             /\ (receivers'[_webHook'].open \/ receivers'[_webHook'].binding))
  /\ (call'.op = "startPolling" /\ _webHook # 0 /\ ~receivers[_webHook].open)
       => (call'.status # "rejected" /\ _polling' # 0
             /\ engines'[_polling'].state # "Stopped")

C29_CurrentStateOnly == []C29_AfterSettled /\ [][C29_Step]_vars

C29_Witness ==
  /\ call.op = "openWebHook"
  /\ call.status = "pending"
  /\ _polling # 0
  /\ engines[_polling].state = "Stopped"
  /\ engines[_polling].maxSeen >= 0
  /\ receivers[_webHook].binding

\* C30: the same text message processed a second time, with the tables as
\* the first call left them, invokes the text-matcher callbacks the first
\* call invoked.  Stated for first calls that nothing ends by throwing.
C30_Redelivery ==
  (Truthy(update.message) /\ Has(update.message, "text") /\ ~threw) =>
    Who(ProcessUpdate(update, _textRegexpCallbacks, _replyListeners, handlers,
                      options.onlyFirstMatch).invoked, "text")
      = Who(invoked, "text")

\* C27: when a callback invoked during a dispatch removes a reply listener,
\* the reply listeners invoked for that update are those that were
\* registered for the replied message when the dispatch began, each once.
\* Stated for the calls that nothing ends by throwing.
C27_Step ==
  (update = NoUpdate /\ update' # NoUpdate /\ Truthy(update'.message)
     /\ update'.message.reply_to # 0 /\ ~threw')
    => Who(invoked', "reply") = WaitingFor(_replyListeners, update'.message, 1)

C27_MutationDuringDispatch == [][C27_Step]_vars

====
